---- MODULE Spec2Model ----
(***************************************************************************)
(* The sync manager of BaiduPCS-Go (package pcscommand): the watch         *)
(* registry (syncManager, WatchEntry), its persistence (load / save), the  *)
(* Registry API (Add / Delete / List / Start / Stop / StartAll / StopAll), *)
(* the per-watch goroutine (runWatch, scanAndUpload) and the ignore-rule   *)
(* matcher (loadPatternsForWatch, patternToRegexp, shouldIgnore).          *)
(*                                                                         *)
(* Go pointers are modelled by an explicit heap: s.cfg.Watches maps a      *)
(* watch id to the address of a WatchEntry, and every goroutine keeps the  *)
(* address it was started with.  load() allocates fresh entries, so the    *)
(* entries of the previous s.cfg stay reachable only from the goroutines   *)
(* that hold them.  Addresses are renumbered after every step (Normalize), *)
(* which changes nothing the program can observe.                          *)
(*                                                                         *)
(* Environment: the configuration file is readable and writable (ReadFile  *)
(* fails only when it does not exist, WriteFile never); its content can be *)
(* damaged from outside, and json.Unmarshal then fails.  The watch roots   *)
(* hold no .pcsignore file; the ignore-rule source /ign can be edited.     *)
(***************************************************************************)
EXTENDS Integers, Sequences, FiniteSets, TLC

\* ---------------------------------------------------------------- bounds
MaxTasks == 2      \* goroutines alive at the same time
MaxUuid == 2       \* uuid.New() calls in one behaviour
MaxVer == 2        \* distinct contents a local file takes
MaxWrites == 1     \* changes made from outside (local trees, /ign) in one behaviour
MaxPending == 1    \* StartAll / StopAll calls between their load and their loop
MaxRules == 3      \* lines of an ignore-rule source given to the matcher alone
MaxPasses == 4     \* passes of the bundle-mode watch in one behaviour
MaxBody == 3       \* characters of a rule body given to patternToRegexp alone
MaxPath == 3       \* characters of a path matched against such a rule

\* ------------------------------------------------------------ the inputs
Locals == {"/a", "/b"}
LocalArgs == {"/a", "/a/", "/b", "/c"}
\* the AddWatch calls made: <<local, key, ignoreFile, randomFilename>>
AddArgs ==
  {<<"/a", "k", "/ign", TRUE>>, <<"/a", "k", "", TRUE>>, <<"/a/", "", "", TRUE>>,
   <<"/b", "", "", FALSE>>}
RemoteRoot == "/r"
IntervalArg == 60
MethodArg == "aes-128-ctr"

\* the regular files WalkDir can find under a watch root
TreeOf(local) ==
  CASE local = "/a" -> {"a.txt", "sub/b.txt"}
    [] local = "/b" -> {}
    [] OTHER -> {}

RelPaths == UNION {TreeOf(l) : l \in Locals}

\* a path, byte by byte
Chars(p) ==
  CASE p = "a.txt" -> <<"a", ".", "t", "x", "t">>
    [] p = "sub/b.txt" -> <<"s", "u", "b", "/", "b", ".", "t", "x", "t">>
    [] p = "important.log" ->
         <<"i", "m", "p", "o", "r", "t", "a", "n", "t", ".", "l", "o", "g">>
    [] p = "debug.log" -> <<"d", "e", "b", "u", "g", ".", "l", "o", "g">>
    [] p = "sub/debug.log" -> <<"s", "u", "b", "/", "d", "e", "b", "u", "g", ".", "l", "o", "g">>
    [] p = "sub" -> <<"s", "u", "b">>
    [] p = "<C3>" -> <<"C3">>
    [] p = "<FFFD>" -> <<"EF", "BF", "BD">>
    [] OTHER -> <<>>

\* the names above.  "<C3>" is the file name made of the one byte 0xC3 (not
\* valid UTF-8), "<FFFD>" the name made of the character U+FFFD.
ByteNames ==
  {"a.txt", "sub/b.txt", "important.log", "debug.log", "sub/debug.log", "sub",
   "<C3>", "<FFFD>"}

\* the name with these bytes
NameOf(bytes) == CHOOSE n \in ByteNames : Chars(n) = bytes

\* the lines of the ignore-rule source /ign:  "# rules", "sub/", " b.* ", "!a.txt"
IgnoreLines ==
  << <<"#", " ", "r", "u", "l", "e", "s">>,
     <<"s", "u", "b", "/">>,
     <<" ", "b", ".", "*", " ">>,
     <<"!", "a", ".", "t", "x", "t">> >>

\* the lines an ignore-rule source is made of when the matcher is run alone:
\*   "*.log", "!important.log", "sub/", "debug.log"
RuleLines ==
  { <<"*", ".", "l", "o", "g">>,
    <<"!", "i", "m", "p", "o", "r", "t", "a", "n", "t", ".", "l", "o", "g">>,
    <<"s", "u", "b", "/">>,
    <<"d", "e", "b", "u", "g", ".", "l", "o", "g">> }

\* the candidate paths given to the matcher when it is run alone
Candidates == {"important.log", "debug.log", "sub/debug.log", "sub", "a.txt"}

NoVal == "nil"

\* filepath.Clean on the arguments used here
Clean(p) == IF p = "/a/" THEN "/a" ELSE p

\* filepath.Dir and filepath.Base of the relative paths used here
Dir(rel) == IF rel = "sub/b.txt" THEN "sub" ELSE "."
Base(rel) == IF rel = "sub/b.txt" THEN "b.txt" ELSE rel

\* watchID: hex(sha1(local)), one id per distinct string
watchID(local) ==
  CASE local = "/a" -> "sha1(/a)"
    [] local = "/b" -> "sha1(/b)"
    [] local = "/c" -> "sha1(/c)"
    [] OTHER -> "sha1(?)"

WatchIds == {watchID(Clean(a)) : a \in LocalArgs}

\* the place of an id in a fixed order (used only to number addresses)
IdIndex(id) ==
  CASE id = "sha1(/a)" -> 1
    [] id = "sha1(/b)" -> 2
    [] id = "sha1(/c)" -> 3
    [] OTHER -> 4

\* ---------------------------------------------------- the pattern engine
TrimLeft(s) ==
  LET RECURSIVE f(_)
      f(t) == IF Len(t) > 0 /\ Head(t) = " " THEN f(Tail(t)) ELSE t
  IN f(s)

TrimRight(s) ==
  LET RECURSIVE f(_)
      f(t) == IF Len(t) > 0 /\ t[Len(t)] = " " THEN f(SubSeq(t, 1, Len(t) - 1)) ELSE t
  IN f(s)

TrimSpace(s) == TrimRight(TrimLeft(s))

HasPrefix(s, c) == Len(s) > 0 /\ s[1] = c
HasSuffix(s, c) == Len(s) > 0 /\ s[Len(s)] = c

\* Strings are byte sequences.  The bytes below 0x80 are written as the
\* character they encode; "C3" and "A9" are the bytes 0xC3 and 0xA9, which
\* together encode U+00E9.  The regular expression works on code points.

\* string(ch) for a byte ch: the code point whose number the byte is
RuneOfByte(b) ==
  CASE b = "C3" -> "U+00C3"
    [] b = "A9" -> "U+00A9"
    [] OTHER -> b

\* the code points the regexp package reads from a text
DecodeRunes(s) ==
  LET RECURSIVE f(_)
      f(i) ==
        IF i > Len(s) THEN <<>>
        ELSE IF s[i] = "C3" /\ i + 1 <= Len(s) /\ s[i + 1] = "A9"
          THEN <<"U+00E9">> \o f(i + 2)
        ELSE IF s[i] \in {"C3", "A9"} THEN <<"U+FFFD">> \o f(i + 1)
        ELSE <<s[i]>> \o f(i + 1)
  IN f(1)

\* the UTF-8 bytes of a sequence of code points
Encode(chars) ==
  LET RECURSIVE f(_)
      f(i) == IF i > Len(chars) THEN <<>>
              ELSE IF chars[i] = "U+00E9" THEN <<"C3", "A9">> \o f(i + 1)
              ELSE IF chars[i] = "U+FFFD" THEN <<"EF", "BF", "BD">> \o f(i + 1)
              ELSE <<chars[i]>> \o f(i + 1)
  IN f(1)

\* patternToRegexp: the regular expression as a token list.
\*   "**" -> any (.*)   "*" -> seg ([^/]*)   "?" -> one (.)
\*   any other byte ch -> lit (QuoteMeta(string(ch)))
patternToRegexp(p, anchored) ==
  LET RECURSIVE conv(_)
      conv(i) ==
        IF i > Len(p) THEN <<>>
        ELSE IF i + 1 <= Len(p) /\ p[i] = "*" /\ p[i + 1] = "*"
          THEN <<[k |-> "any", c |-> ""]>> \o conv(i + 2)
        ELSE IF p[i] = "*" THEN <<[k |-> "seg", c |-> ""]>> \o conv(i + 1)
        ELSE IF p[i] = "?" THEN <<[k |-> "one", c |-> ""]>> \o conv(i + 1)
        ELSE <<[k |-> "lit", c |-> RuneOfByte(p[i])]>> \o conv(i + 1)
  IN [anchored |-> anchored, core |-> conv(1)]

\* re.MatchString(s) for the expressions patternToRegexp builds:
\*   anchored  ^core$        unanchored  ^(.*/)?core$
MatchString(re, text) ==
  LET toks == re.core
      s == DecodeRunes(text)
      RECURSIVE m(_, _)
      m(i, j) ==
        IF i > Len(toks) THEN j > Len(s)
        ELSE CASE toks[i].k = "any" -> \E n \in j..(Len(s) + 1) : m(i + 1, n)
               [] toks[i].k = "seg" ->
                    \E n \in j..(Len(s) + 1) :
                       (\A x \in j..(n - 1) : s[x] # "/") /\ m(i + 1, n)
               [] toks[i].k = "one" -> j <= Len(s) /\ m(i + 1, j + 1)
               [] OTHER -> j <= Len(s) /\ s[j] = toks[i].c /\ m(i + 1, j + 1)
  IN IF re.anchored THEN m(1, 1)
     ELSE m(1, 1) \/ \E n \in 1..Len(s) : s[n] = "/" /\ m(1, n + 1)

\* the scanner loop of loadPatternsForWatch: one line to zero or one rule
compileLine(text) ==
  LET line0 == TrimSpace(text)
      neg == HasPrefix(line0, "!")
      line1 == IF neg THEN TrimSpace(Tail(line0)) ELSE line0
      anchored == HasPrefix(line1, "/")
      line2 == IF anchored THEN Tail(line1) ELSE line1
      dirOnly == HasSuffix(line2, "/")
      line3 == IF dirOnly THEN SubSeq(line2, 1, Len(line2) - 1) ELSE line2
  IN IF line0 = <<>> \/ HasPrefix(line0, "#") THEN <<>>
     ELSE IF neg /\ line1 = <<>> THEN <<>>
     ELSE <<[raw |-> line3, neg |-> neg, dirOnly |-> dirOnly, anchored |-> anchored,
             re |-> patternToRegexp(line3, anchored)]>>

compileLines(lines) ==
  LET RECURSIVE f(_)
      f(i) == IF i > Len(lines) THEN <<>> ELSE compileLine(lines[i]) \o f(i + 1)
  IN f(1)

\* a Go slice: nil, or a (possibly empty) list
NilSlice == [isNil |-> TRUE, list |-> <<>>]
Slice(l) == [isNil |-> FALSE, list |-> l]

\* the ignore-rule source /ign as it is on disk now: absent, or its lines
VARIABLE ign

IgnoreFileOf(lines) == [ok |-> TRUE, lines |-> lines]
NoIgnoreFile == [ok |-> FALSE, lines |-> <<>>]

\* the contents /ign takes:  absent;  "# rules", "sub/", " b.* ", "!a.txt";
\* a comment only ("# rules");  "a.txt"
IgnoreFiles ==
  {NoIgnoreFile,
   IgnoreFileOf(IgnoreLines),
   IgnoreFileOf(<< <<"#", " ", "r", "u", "l", "e", "s">> >>),
   IgnoreFileOf(<< <<"a", ".", "t", "x", "t">> >>)}

\* os.Open of the ignore-rule source a watch names: no other file than /ign
\* exists
IgnoreSource(ignoreFile) ==
  IF ignoreFile = "/ign" THEN ign
  ELSE NoIgnoreFile

\* loadPatternsForWatch: the value w.patterns has after the call
loadPatternsForWatch(w) ==
  IF ~w.patterns.isNil THEN w.patterns
  ELSE IF ~IgnoreSource(w.IgnoreFile).ok THEN Slice(<<>>)
  ELSE LET ps == compileLines(IgnoreSource(w.IgnoreFile).lines)
       IN IF ps = <<>> THEN NilSlice ELSE Slice(ps)

\* (mutant of shouldIgnore: the first matching rule decides, not the last)
shouldIgnore_firstMatch(patterns, rel, isDir) ==
  LET hits == {i \in 1..Len(patterns) :
                 /\ ~(patterns[i].dirOnly /\ ~isDir)
                 /\ MatchString(patterns[i].re, Chars(rel))}
  IN hits # {} /\ ~patterns[CHOOSE i \in hits : \A j \in hits : i <= j].neg

\* (mutant of shouldIgnore: a directory-only rule is applied to files too)
shouldIgnore_dirRulesOnFiles(patterns, rel, isDir) ==
  LET RECURSIVE f(_, _)
      f(i, ignored) ==
        IF i > Len(patterns) THEN ignored
        ELSE IF MatchString(patterns[i].re, Chars(rel)) THEN f(i + 1, ~patterns[i].neg)
        ELSE f(i + 1, ignored)
  IN IF Len(patterns) = 0 THEN FALSE ELSE f(1, FALSE)

\* shouldIgnore, on the rule list loadPatternsForWatch returned
shouldIgnore(patterns, rel, isDir) ==
  LET RECURSIVE f(_, _)
      f(i, ignored) ==
        IF i > Len(patterns) THEN ignored
        ELSE IF patterns[i].dirOnly /\ ~isDir THEN f(i + 1, ignored)
        ELSE IF MatchString(patterns[i].re, Chars(rel)) THEN f(i + 1, ~patterns[i].neg)
        ELSE f(i + 1, ignored)
  IN IF Len(patterns) = 0 THEN FALSE ELSE f(1, FALSE)

\* ------------------------------------------------------------- the state
VARIABLES
  cfg,       \* s.cfg: nil, or Watches: watch id -> address of a WatchEntry
  heap,      \* address -> WatchEntry (persisted and runtime fields)
  disk,      \* sync_config.json: absent, or watch id -> persisted fields, or
             \* (bad) bytes json.Unmarshal rejects
  tasks,     \* goroutine slot -> the runWatch goroutine in it; slot t also names
             \* the channel made for that goroutine (w.stopCh = make(chan struct{}))
  closed,    \* the channels close() was called on
  fs,        \* local root -> relative path -> content version (0: no such file)
  writes,    \* changes made from outside to the local trees and to /ign so far
  nextUuid,  \* uuid.New() calls so far
  pending,   \* StartAll / StopAll calls that have loaded and not yet looped
  uploaded,  \* <<local, rel, md5>> of every RunUpload that succeeded
  probe,     \* the matcher run alone: its rule lines, its arguments, its result
  temps,     \* the temporary files in the local trees: [local, rel, name]
  bundle     \* the watch in bundle mode and its goroutine

vars ==
  <<cfg, heap, disk, tasks, closed, fs, writes, nextUuid, pending, uploaded, probe,
    temps, bundle, ign>>

\* no watch in bundle mode
NoBundle ==
  [key |-> "", anon |-> FALSE, name |-> 0, saved |-> 0, pc |-> "none", pass |-> 0,
   log |-> <<>>]

\* no run of the matcher alone
NoProbe ==
  [lines |-> <<>>, patterns |-> NilSlice, rel |-> NoVal, isDir |-> FALSE,
   pc |-> "none", out |-> FALSE]

\* what a Registry API call returns: the call and its error ("ok" for nil)
NoCall == [op |-> "none", local |-> "", err |-> "ok"]

\* the state as one value; ret is the return value of the call applied to it
M ==
  [cfg |-> cfg, heap |-> heap, disk |-> disk, tasks |-> tasks, closed |-> closed,
   fs |-> fs, writes |-> writes, nextUuid |-> nextUuid, pending |-> pending,
   uploaded |-> uploaded, temps |-> temps, ret |-> NoCall]

Slots == 1..MaxTasks
Uuids == 1..MaxUuid

EmptyMap == [x \in {} |-> NoVal]
Put(f, k, v) == [x \in DOMAIN f \cup {k} |-> IF x = k THEN v ELSE f[x]]
Del(f, k) == [x \in DOMAIN f \ {k} |-> f[x]]
MaxOf(S) == IF S = {} THEN 0 ELSE CHOOSE x \in S : \A y \in S : y <= x
MinOf(S) == CHOOSE x \in S : \A y \in S : x <= y

\* the fields of WatchEntry with a json name
PersistedFields ==
  {"Local", "Remote", "Interval", "Key", "Method", "IgnoreFile", "RandomFilename",
   "Files", "FileNameMap"}

\* (mutant of JsonString: the bytes are written as they are)
JsonString_raw(s) == s

\* a string as encoding/json writes it and reads it back: the text is coerced
\* to valid UTF-8, every byte outside a valid sequence becomes U+FFFD.  (The
\* strings with no entry in Chars are ASCII.)
JsonString(s) ==
  LET b == Chars(s)
  IN IF b = <<>> THEN s ELSE NameOf(Encode(DecodeRunes(b)))

\* a map[string]T as encoding/json writes it and reads it back.  (No two keys
\* used here are coerced to the same string.)
JsonMap(f) ==
  [k \in {JsonString(x) : x \in DOMAIN f} |->
     f[CHOOSE x \in DOMAIN f : JsonString(x) = k]]

\* json.MarshalIndent of one entry: the `json:"-"` fields are left out
Marshal(e) ==
  [Local |-> JsonString(e.Local), Remote |-> JsonString(e.Remote),
   Interval |-> e.Interval, Key |-> JsonString(e.Key),
   Method |-> JsonString(e.Method), IgnoreFile |-> JsonString(e.IgnoreFile),
   RandomFilename |-> e.RandomFilename,
   Files |-> JsonMap(e.Files),
   FileNameMap |-> [n \in DOMAIN e.FileNameMap |-> JsonString(e.FileNameMap[n])]]

\* json.Unmarshal of one entry: the runtime fields take their zero values
\* (a nil map and an empty map are not told apart: the code reads both alike)
Unmarshal(p) ==
  [Local |-> p.Local, Remote |-> p.Remote, Interval |-> p.Interval, Key |-> p.Key,
   Method |-> p.Method, IgnoreFile |-> p.IgnoreFile,
   RandomFilename |-> p.RandomFilename, Files |-> p.Files,
   FileNameMap |-> p.FileNameMap,
   stopCh |-> 0, Running |-> FALSE, patterns |-> NilSlice]

\* syncFileState of a file whose content is version v
FileStateOf(v) == [ModTime |-> v, Size |-> v, MD5 |-> v]

NoTask ==
  [live |-> FALSE, w |-> 0, pc |-> "dead", todo |-> {}, cur |-> NoVal, md5 |-> 0,
   uuid |-> 0, sel |-> 0, done |-> {}, ups |-> {}, seen |-> FALSE, rules |-> <<>>]

LiveTasks(m) == {t \in DOMAIN m.tasks : m.tasks[t].live}

\* ------------------------------------------------------------ load / save
\* the error load returns when json.Unmarshal fails
LoadError == "invalid sync_config.json"

\* load returns an error (and callers return it at once)
loadErr(m) == m.disk.exists /\ m.disk.bad

\* (mutant of load: a file that does not parse is taken for an empty registry)
load_discard(m) ==
  IF ~m.disk.exists \/ m.disk.bad
    THEN [m EXCEPT !.cfg = [isNil |-> FALSE, Watches |-> EmptyMap]]
    ELSE LET ids == DOMAIN m.disk.watches
             base == MaxOf(DOMAIN m.heap)
             addr(id) == base + IdIndex(id)
             idAt(a) == CHOOSE id \in ids : addr(id) = a
         IN [m EXCEPT
               !.cfg = [isNil |-> FALSE, Watches |-> [id \in ids |-> addr(id)]],
               !.heap = [a \in DOMAIN m.heap \cup {addr(id) : id \in ids} |->
                           IF a \in DOMAIN m.heap THEN m.heap[a]
                           ELSE Unmarshal(m.disk.watches[idAt(a)])]]

load(m) ==
  IF ~m.disk.exists
    THEN [m EXCEPT !.cfg = [isNil |-> FALSE, Watches |-> EmptyMap]]
  ELSE IF m.disk.bad
    THEN m
    ELSE LET ids == DOMAIN m.disk.watches
             base == MaxOf(DOMAIN m.heap)
             addr(id) == base + IdIndex(id)
             idAt(a) == CHOOSE id \in ids : addr(id) = a
         IN [m EXCEPT
               !.cfg = [isNil |-> FALSE, Watches |-> [id \in ids |-> addr(id)]],
               !.heap = [a \in DOMAIN m.heap \cup {addr(id) : id \in ids} |->
                           IF a \in DOMAIN m.heap THEN m.heap[a]
                           ELSE Unmarshal(m.disk.watches[idAt(a)])]]

save(m) ==
  LET ws == IF m.cfg.isNil THEN EmptyMap ELSE m.cfg.Watches
  IN [m EXCEPT
        !.cfg = [isNil |-> FALSE, Watches |-> ws],
        !.disk = [exists |-> TRUE,
                  watches |-> [id \in DOMAIN ws |-> Marshal(m.heap[ws[id]])],
                  bad |-> FALSE]]

\* addresses are renumbered (entries of s.cfg first, in id order, then the
\* entries only goroutines hold), unreachable entries and channels are dropped
Normalize(m) ==
  LET liveT == LiveTasks(m)
      ws == m.cfg.Watches
      cfgA == {ws[id] : id \in DOMAIN ws}
      refs == cfgA \cup {m.tasks[t].w : t \in liveT}
      key(a) == IF a \in cfgA
                  THEN IdIndex(CHOOSE id \in DOMAIN ws : ws[id] = a)
                  ELSE 10 + MinOf({t \in liveT : m.tasks[t].w = a})
      rank(a) == Cardinality({b \in refs : key(b) <= key(a)})
      inv(i) == CHOOSE a \in refs : rank(a) = i
      chans == liveT \cup {m.heap[a].stopCh : a \in refs}
                     \cup {m.tasks[t].sel : t \in liveT}
  IN [m EXCEPT
        !.heap = [i \in 1..Cardinality(refs) |-> m.heap[inv(i)]],
        !.cfg = [isNil |-> @.isNil, Watches |-> [id \in DOMAIN ws |-> rank(ws[id])]],
        !.tasks = [t \in DOMAIN @ |->
                     IF @[t].live THEN [@[t] EXCEPT !.w = rank(@)] ELSE @[t]],
        !.closed = @ \cap chans]

Return(m, op, local, err) == [m EXCEPT !.ret = [op |-> op, local |-> local, err |-> err]]

\* ------------------------------------------------------- the Registry API
AddWatchWithIgnoreAndRandom(m, local0, key, ignoreFile, randomFilename) ==
  LET m1 == load(m)
      local == Clean(local0)
      id == watchID(local)
      a == MaxOf(DOMAIN m1.heap) + 1
      we == [Local |-> local, Remote |-> RemoteRoot, Interval |-> IntervalArg,
             Key |-> key, Method |-> MethodArg, IgnoreFile |-> ignoreFile,
             RandomFilename |-> randomFilename, Files |-> EmptyMap,
             FileNameMap |-> EmptyMap,
             stopCh |-> 0, Running |-> FALSE, patterns |-> NilSlice]
  IN IF loadErr(m) THEN Return(m1, "AddWatch", local0, LoadError)
     ELSE IF id \in DOMAIN m1.cfg.Watches
       THEN Return(m1, "AddWatch", local0, "watch already exists")
       ELSE Return(save([m1 EXCEPT !.heap = Put(@, a, we),
                                   !.cfg.Watches = Put(@, id, a)]),
                   "AddWatch", local0, "ok")

\* close(ch)
Close(m, ch) == [m EXCEPT !.closed = @ \cup {ch}]

DeleteWatch(m, local) ==
  LET m1 == load(m)
      id == watchID(Clean(local))
      w == m1.heap[m1.cfg.Watches[id]]
      m2 == IF w.Running /\ w.stopCh # 0 THEN Close(m1, w.stopCh) ELSE m1
  IN IF loadErr(m) THEN Return(m1, "DeleteWatch", local, LoadError)
     ELSE IF id \notin DOMAIN m1.cfg.Watches
       THEN Return(m1, "DeleteWatch", local, "watch not found")
       ELSE Return(save([m2 EXCEPT !.cfg.Watches = Del(@, id)]),
                   "DeleteWatch", local, "ok")

ListWatches(m) ==
  Return(load(m), "ListWatches", "", IF loadErr(m) THEN LoadError ELSE "ok")

\* the slots a new goroutine (and its channel) can take
FreeSlots(m) ==
  {t \in DOMAIN m.tasks :
     /\ ~m.tasks[t].live
     /\ \A a \in DOMAIN m.heap : m.heap[a].stopCh # t
     /\ \A u \in LiveTasks(m) : m.tasks[u].sel # t}

\* w.stopCh = make(chan struct{}); w.Running = true; go s.runWatch(w)
Launch(m, a) ==
  LET t == MinOf(FreeSlots(m))
  IN [m EXCEPT !.heap[a].stopCh = t,
               !.heap[a].Running = TRUE,
               !.closed = @ \ {t},
               !.tasks[t] = [NoTask EXCEPT !.live = TRUE, !.w = a, !.pc = "start"]]

StartWatch(m, local) ==
  LET m1 == load(m)
      id == watchID(Clean(local))
      a == m1.cfg.Watches[id]
  IN IF loadErr(m) THEN Return(m1, "StartWatch", local, LoadError)
     ELSE IF id \notin DOMAIN m1.cfg.Watches
       THEN Return(m1, "StartWatch", local, "watch not found")
     ELSE IF m1.heap[a].Running
       THEN Return(m1, "StartWatch", local, "watch already running")
     ELSE Return(save(Launch(m1, a)), "StartWatch", local, "ok")

StopWatch(m, local) ==
  LET m1 == load(m)
      id == watchID(Clean(local))
      a == m1.cfg.Watches[id]
      w == m1.heap[a]
      m2 == IF w.stopCh # 0 THEN Close(m1, w.stopCh) ELSE m1
  IN IF loadErr(m) THEN Return(m1, "StopWatch", local, LoadError)
     ELSE IF id \notin DOMAIN m1.cfg.Watches
       THEN Return(m1, "StopWatch", local, "watch not found")
     ELSE IF ~w.Running
       THEN Return(m1, "StopWatch", local, "watch not running")
     ELSE Return(save([m2 EXCEPT !.heap[a].Running = FALSE, !.heap[a].stopCh = 0]),
                 "StopWatch", local, "ok")

\* the ids of s.cfg.Watches in the order the loops below visit them
RangeWatches(m) ==
  LET ids == DOMAIN m.cfg.Watches
      RECURSIVE f(_)
      f(S) == IF S = {} THEN <<>>
              ELSE LET id == CHOOSE x \in S : \A y \in S : IdIndex(x) <= IdIndex(y)
                   IN <<id>> \o f(S \ {id})
  IN f(ids)

\* StartAll after its load: the loop and the save
StartAllLoop(m) ==
  LET order == RangeWatches(m)
      RECURSIVE f(_, _)
      f(i, n) ==
        IF i > Len(order) THEN n
        ELSE LET a == n.cfg.Watches[order[i]]
             IN f(i + 1, IF ~n.heap[a].Running THEN Launch(n, a) ELSE n)
  IN Return(save(f(1, m)), "StartAll", "", "ok")

\* StopAll after its load: the loop and the save
StopAllLoop(m) ==
  LET order == RangeWatches(m)
      RECURSIVE f(_, _)
      f(i, n) ==
        IF i > Len(order) THEN n
        ELSE LET a == n.cfg.Watches[order[i]]
                 w == n.heap[a]
             IN f(i + 1,
                  IF w.Running /\ w.stopCh # 0
                    THEN [Close(n, w.stopCh) EXCEPT !.heap[a].Running = FALSE,
                                                    !.heap[a].stopCh = 0]
                    ELSE n)
  IN Return(save(f(1, m)), "StopAll", "", "ok")

\* StartAll and StopAll with nothing running between their load and their loop
StartAll(m) ==
  IF loadErr(m) THEN Return(load(m), "StartAll", "", LoadError)
  ELSE StartAllLoop(load(m))

StopAll(m) ==
  IF loadErr(m) THEN Return(load(m), "StopAll", "", LoadError)
  ELSE StopAllLoop(load(m))

\* StartSync after <-sigs: the watches are stopped
StartSyncInterrupt(m, local) == IF local = "" THEN StopAll(m) ELSE StopWatch(m, local)

\* the goroutines StartAllLoop would launch
ToLaunch(m) ==
  {id \in DOMAIN m.cfg.Watches : ~m.heap[m.cfg.Watches[id]].Running}

\* ------------------------------------------- runWatch and scanAndUpload
\* pcsutil.WalkDir(w.Local, ""): the regular files under the root now
WalkDir(m, local) ==
  IF local \in DOMAIN m.fs THEN {rel \in TreeOf(local) : m.fs[local][rel] # 0} ELSE {}

\* (mutant of BeginPass: the state of the files no longer walked is dropped)
BeginPass_prune(m, t) ==
  LET a == m.tasks[t].w
      walked == WalkDir(m, m.heap[a].Local)
  IN [m EXCEPT !.tasks[t].pc = "scan",
               !.tasks[t].todo = walked,
               !.tasks[t].done = {},
               !.tasks[t].ups = {},
               !.heap[a].Files = [rel \in DOMAIN @ \cap walked |-> @[rel]]]

\* the start of a pass (the immediate run, or the run a tick starts)
BeginPass(m, t) ==
  [m EXCEPT !.tasks[t].pc = "scan",
            !.tasks[t].todo = WalkDir(m, m.heap[m.tasks[t].w].Local),
            !.tasks[t].done = {},
            !.tasks[t].ups = {}]

\* (mutant of Unchanged: the comparison with the recorded state is lost)
Unchanged_never(w, rel, currentMD5) == FALSE

\* prev, ok := w.Files[rel]; ok && prev.MD5 == currentMD5
Unchanged(w, rel, currentMD5) ==
  rel \in DOMAIN w.Files /\ w.Files[rel].MD5 = currentMD5

\* (mutant of Decide: the ignore check is lost)
Decide_noIgnore(w, rel, exists, hashOk, currentMD5) ==
  IF ~exists THEN "stat error"
  ELSE IF ~hashOk THEN "md5 error"
  ELSE IF rel \in DOMAIN w.Files /\ w.Files[rel].MD5 = currentMD5 THEN "unchanged"
  ELSE "accepted"

\* what the loop body decides for one walked file, up to the ignore check
Decide(w, rel, exists, hashOk, currentMD5) ==
  IF ~exists THEN "stat error"
  ELSE IF ~hashOk THEN "md5 error"
  ELSE IF Unchanged(w, rel, currentMD5) THEN "unchanged"
  ELSE IF shouldIgnore(loadPatternsForWatch(w).list, rel, FALSE) THEN "ignored"
  ELSE "accepted"

\* (mutant of RecordName: the name is not the new one but a fixed one)
RecordName_reuse(fileNameMap, newFileName, rel) == Put(fileNameMap, 1, rel)

\* the FileNameMap after the anonymized name newFileName is given to rel
RecordName(fileNameMap, newFileName, rel) == Put(fileNameMap, newFileName, rel)

\* (mutant of Anonymizes: the key is not looked at)
Anonymizes_flagOnly(w) == w.RandomFilename

\* the file is uploaded under a generated name: the uuid is made inside
\* `if w.Key != ""`, under `if w.RandomFilename`
Anonymizes(w) == w.Key # "" /\ w.RandomFilename

\* the name of the file RunUpload is given (the base name of uploadPath)
FileName(rel) == <<"file", Base(rel)>>
EncryptedName(rel) == <<"encrypted", Base(rel)>>
UuidName(n) == <<"uuid", n>>

\* a temporary file of the watch root local, made while rel is handled
Temp(local, rel, name) == [local |-> local, rel |-> rel, name |-> name]

\* (mutant of savePath: the relative directory is dropped)
savePath_flat(w, rel) == w.Remote

\* the remote directory RunUpload is given
savePath(w, rel) ==
  IF Dir(rel) = "." THEN w.Remote ELSE w.Remote \o "/" \o Dir(rel)

\* os.Rename(uploadPath, tempUploadPath): the temporary files after it
Rename(temps0, local, rel, from, to, renameOk) ==
  IF renameOk
    THEN (temps0 \ {Temp(local, rel, from)}) \cup {Temp(local, rel, to)}
    ELSE temps0

\* the loop body for one walked file, up to the call of RunUpload
ScanFile(m, t, rel, hashOk, encOk, renameOk) ==
  LET a == m.tasks[t].w
      w == m.heap[a]
      v == m.fs[w.Local][rel]
      d == Decide(w, rel, v # 0, hashOk, v)
      skip(n) == [n EXCEPT !.tasks[t].todo = @ \ {rel}]
      \* shouldIgnore ran: w.patterns holds what loadPatternsForWatch left
      \* (seen, rules: shouldIgnore was called, and the rule list its last call
      \* got from loadPatternsForWatch)
      patterns == loadPatternsForWatch(w)
      m1 == [m EXCEPT !.heap[a].patterns = patterns,
                      !.tasks[t].seen = TRUE,
                      !.tasks[t].rules = patterns.list]
      \* encryptFileForSync wrote f + ".encrypted"
      m1e == [m1 EXCEPT !.temps = IF w.Key # ""
                                    THEN @ \cup {Temp(w.Local, rel, EncryptedName(rel))}
                                    ELSE @]
      newFileName == m.nextUuid + 1
      m2 == [m1e EXCEPT !.nextUuid = IF Anonymizes(w) THEN newFileName ELSE @,
                        !.heap[a].FileNameMap =
                           IF Anonymizes(w) THEN RecordName(@, newFileName, rel) ELSE @]
      renames == w.RandomFilename /\ w.Key # "" /\ Anonymizes(w)
      m3 == [m2 EXCEPT !.temps = IF renames
                                   THEN Rename(@, w.Local, rel, EncryptedName(rel),
                                               UuidName(newFileName), renameOk)
                                   ELSE @]
  IN IF d \in {"stat error", "md5 error", "unchanged"} THEN skip(m)
     ELSE IF d = "ignored" THEN skip(m1)
     ELSE IF w.Key # "" /\ ~encOk THEN skip(m1)
     ELSE IF renames /\ ~renameOk THEN skip(m3)
     ELSE [m3 EXCEPT !.tasks[t].todo = @ \ {rel},
                     !.tasks[t].cur = rel,
                     !.tasks[t].md5 = v,
                     !.tasks[t].uuid = IF Anonymizes(w) THEN newFileName ELSE 0,
                     !.tasks[t].pc = "upload"]

\* whether ScanFile calls uuid.New() for this file
Mints(m, t, rel, hashOk, encOk) ==
  LET w == m.heap[m.tasks[t].w]
      v == m.fs[w.Local][rel]
  IN /\ Decide(w, rel, v # 0, hashOk, v) = "accepted"
     /\ encOk /\ Anonymizes(w)

\* the name of the file RunUpload is given for rel by a goroutine of w
UploadName(w, rel, uuid) ==
  IF w.Key = "" THEN FileName(rel)
  ELSE IF uuid # 0 THEN UuidName(uuid)
  ELSE EncryptedName(rel)

\* the Files map after RunUpload returned (whatever it returned)
RecordState(files, rel, uploadOk, state) == Put(files, rel, state)

\* RunUpload returns, the temporary file is removed, w.Files[rel] is written
Upload(m, t, uploadOk) ==
  LET a == m.tasks[t].w
      w == m.heap[a]
      rel == m.tasks[t].cur
      md5 == m.tasks[t].md5
      name == UploadName(w, rel, m.tasks[t].uuid)
  IN [m EXCEPT !.uploaded = IF uploadOk THEN @ \cup {<<w.Local, rel, md5>>} ELSE @,
               !.tasks[t].ups = @ \cup {[rel |-> rel, name |-> name,
                                         dir |-> savePath(w, rel)]},
               \* if uploadPath != f { os.Remove(uploadPath) }
               !.temps = IF name # FileName(rel)
                           THEN @ \ {Temp(w.Local, rel, name)} ELSE @,
               !.heap[a].Files = RecordState(@, rel, uploadOk, FileStateOf(md5)),
               !.tasks[t].pc = "save"]

\* s.save() at the end of the loop body
SaveState(m, t) ==
  LET n == save(m)
  IN [n EXCEPT !.tasks[t].pc = "scan",
               !.tasks[t].done = @ \cup {m.tasks[t].cur},
               !.tasks[t].cur = NoVal,
               !.tasks[t].md5 = 0,
               !.tasks[t].uuid = 0]

\* scanAndUpload returns; runWatch evaluates w.stopCh and waits in the select
EndPass(m, t) ==
  [m EXCEPT !.tasks[t].pc = "select",
            !.tasks[t].done = {},
            !.tasks[t].ups = {},
            !.tasks[t].sel = m.heap[m.tasks[t].w].stopCh]

\* case <-w.stopCh: return
Exit(m, t) == [m EXCEPT !.tasks[t] = NoTask]

\* --------------------------------------------------------------- actions
Set(m0) ==
  \E m \in {Normalize(m0)} :
     /\ cfg' = m.cfg /\ heap' = m.heap /\ disk' = m.disk /\ tasks' = m.tasks
     /\ closed' = m.closed /\ fs' = m.fs /\ writes' = m.writes
     /\ nextUuid' = m.nextUuid /\ pending' = m.pending
     /\ uploaded' = m.uploaded
     /\ probe' = probe /\ temps' = m.temps /\ bundle' = bundle /\ ign' = ign

InitM ==
  [cfg |-> [isNil |-> TRUE, Watches |-> EmptyMap],
   heap |-> <<>>,
   disk |-> [exists |-> FALSE, watches |-> EmptyMap, bad |-> FALSE],
   tasks |-> [t \in Slots |-> NoTask],
   closed |-> {},
   fs |-> [l \in Locals |-> [rel \in TreeOf(l) |-> 1]],
   writes |-> 0,
   nextUuid |-> 0,
   pending |-> [start |-> 0, stop |-> 0],
   ret |-> NoCall,
   uploaded |-> {},
   temps |-> {}]

Is(m) ==
  /\ cfg = m.cfg /\ heap = m.heap /\ disk = m.disk /\ tasks = m.tasks
  /\ closed = m.closed /\ fs = m.fs /\ writes = m.writes
  /\ nextUuid = m.nextUuid /\ pending = m.pending
  /\ uploaded = m.uploaded
  /\ probe = NoProbe /\ temps = m.temps /\ bundle = NoBundle
  /\ ign = IgnoreFileOf(IgnoreLines)

\* the process starts: no sync_config.json, s.cfg == nil, no goroutine
Init == Is(InitM)

AddWatchOf(argSet) ==
  \E args \in argSet :
    Set(AddWatchWithIgnoreAndRandom(M, args[1], args[2], args[3], args[4]))

DoAddWatch == AddWatchOf(AddArgs)

DoDeleteWatch == \E local \in LocalArgs : Set(DeleteWatch(M, local))

DoListWatches == Set(ListWatches(M))

StartWatchOf(localSet) ==
  \E local \in localSet :
    /\ FreeSlots(M) # {}
    /\ Set(StartWatch(M, local))

DoStartWatch == StartWatchOf(LocalArgs)

DoStopWatch == \E local \in LocalArgs : Set(StopWatch(M, local))

StartAllLoad ==
  /\ pending.start + pending.stop < MaxPending
  /\ Set([load(M) EXCEPT !.pending.start = IF loadErr(M) THEN @ ELSE @ + 1])

StartAllRun ==
  /\ pending.start > 0
  /\ Cardinality(FreeSlots(M)) >= Cardinality(ToLaunch(M))
  /\ Set([StartAllLoop(M) EXCEPT !.pending.start = @ - 1])

StopAllLoad ==
  /\ pending.start + pending.stop < MaxPending
  /\ Set([load(M) EXCEPT !.pending.stop = IF loadErr(M) THEN @ ELSE @ + 1])

StopAllRun ==
  /\ pending.stop > 0
  /\ Set([StopAllLoop(M) EXCEPT !.pending.stop = @ - 1])

TaskStart ==
  \E t \in Slots :
    /\ tasks[t].live /\ tasks[t].pc = "start"
    /\ Set(BeginPass(M, t))

TaskTick ==
  \E t \in Slots :
    /\ tasks[t].live /\ tasks[t].pc = "select"
    /\ Set(BeginPass(M, t))

\* what can go wrong for one file before RunUpload is called
Failures == {"none", "md5", "encrypt", "rename"}

TaskScanFile ==
  \E t \in Slots :
    /\ tasks[t].live /\ tasks[t].pc = "scan"
    /\ \E rel \in tasks[t].todo, fail \in Failures :
         LET hashOk == fail # "md5"
             encOk == fail # "encrypt"
             renameOk == fail # "rename"
         IN
         /\ Mints(M, t, rel, hashOk, encOk) => nextUuid < MaxUuid
         /\ Set(ScanFile(M, t, rel, hashOk, encOk, renameOk))

TaskUpload ==
  \E t \in Slots :
    /\ tasks[t].live /\ tasks[t].pc = "upload"
    /\ \E uploadOk \in BOOLEAN : Set(Upload(M, t, uploadOk))

TaskSave ==
  \E t \in Slots :
    /\ tasks[t].live /\ tasks[t].pc = "save"
    /\ Set(SaveState(M, t))

TaskEndPass ==
  \E t \in Slots :
    /\ tasks[t].live /\ tasks[t].pc = "scan" /\ tasks[t].todo = {}
    /\ Set(EndPass(M, t))

TaskExit ==
  \E t \in Slots :
    /\ tasks[t].live /\ tasks[t].pc = "select"
    /\ tasks[t].sel # 0 /\ tasks[t].sel \in closed
    /\ Set(Exit(M, t))

\* the local tree changes: a file is rewritten, removed or created
WriteFile ==
  \E local \in Locals, rel \in RelPaths, v \in 0..MaxVer :
    /\ writes < MaxWrites
    /\ rel \in TreeOf(local)
    /\ fs[local][rel] # v
    /\ Set([M EXCEPT !.fs[local][rel] = v, !.writes = @ + 1])

\* sync_config.json is damaged from outside: it no longer parses
CorruptFile ==
  /\ disk.exists /\ ~disk.bad
  /\ Set([M EXCEPT !.disk = [exists |-> TRUE, watches |-> EmptyMap, bad |-> TRUE]])

\* the ignore-rule source is edited, created or removed from outside
EditRules ==
  /\ writes < MaxWrites
  /\ \E file \in IgnoreFiles \ {ign} : ign' = file
  /\ writes' = writes + 1
  /\ UNCHANGED <<cfg, heap, disk, tasks, closed, fs, nextUuid, pending,
                 uploaded, probe, temps, bundle>>

\* ------------------------------------------------------ the whole program
Next ==
  \/ DoAddWatch
  \/ DoDeleteWatch
  \/ DoListWatches
  \/ DoStartWatch
  \/ DoStopWatch
  \/ StartAllLoad
  \/ StartAllRun
  \/ StopAllLoad
  \/ StopAllRun
  \/ TaskStart
  \/ TaskTick
  \/ TaskScanFile
  \/ TaskUpload
  \/ TaskSave
  \/ TaskEndPass
  \/ TaskExit
  \/ WriteFile
  \/ CorruptFile
  \/ EditRules

Spec == Init /\ [][Next]_vars

\* ------------------------------- the Registry API over empty watch roots
\* Every Registry API call and every goroutine, with nothing to upload: the
\* watch roots hold no file and none is created.
ApiAddArgs == {<<"/a", "k", "", TRUE>>, <<"/a/", "", "", TRUE>>, <<"/b", "", "", FALSE>>}

InitApi ==
  Is([InitM EXCEPT !.fs = [l \in Locals |-> [rel \in TreeOf(l) |-> 0]],
                   !.writes = MaxWrites])

NextApi ==
  \/ AddWatchOf(ApiAddArgs)
  \/ DoDeleteWatch
  \/ DoListWatches
  \/ DoStartWatch
  \/ DoStopWatch
  \/ StartAllLoad
  \/ StartAllRun
  \/ StopAllLoad
  \/ StopAllRun
  \/ TaskStart
  \/ TaskTick
  \/ TaskEndPass
  \/ TaskExit

SpecApi == InitApi /\ [][NextApi]_vars

\* ------------------------- the Registry API over a file that can be damaged
NextLoad ==
  \/ NextApi
  \/ CorruptFile

SpecLoad == InitApi /\ [][NextLoad]_vars

\* ----------------------------------------------- the passes of one watch
\* The watch /a has been added (with any of its configurations); it is
\* started once and listed while its goroutine scans and uploads and the
\* local tree changes.
PassArgs == {args \in AddArgs : Clean(args[1]) = "/a"}

InitPass ==
  \E args \in PassArgs :
    Is(Normalize(AddWatchWithIgnoreAndRandom(InitM, args[1], args[2], args[3], args[4])))

\* StartWatch is called while no goroutine runs.  (No call made here closes a
\* channel, so the goroutine never takes the stopCh case of its select.)
StartOnce == LiveTasks(M) = {} /\ StartWatchOf({"/a"})

NextPass ==
  \/ DoListWatches
  \/ StartOnce
  \/ TaskStart
  \/ TaskTick
  \/ TaskScanFile
  \/ TaskUpload
  \/ TaskSave
  \/ TaskEndPass
  \/ WriteFile

SpecPass == InitPass /\ [][NextPass]_vars

\* --------------------------------------- a pass and the cancellation signal
\* The watch /a has been added and its tree does not change.  StopAll is
\* called without mgrMu, so StartWatch can run between its load and its loop;
\* the loop then finds the entry StartWatch marked running, closes its channel
\* and sets w.stopCh to nil.  Here the loop runs while a pass is in flight.
\* (The goroutine then finds w.stopCh nil at every select, so it never takes
\* the stopCh case.)
InitCancel ==
  \E args \in PassArgs :
    Is([Normalize(AddWatchWithIgnoreAndRandom(InitM, args[1], args[2], args[3],
                                              args[4]))
          EXCEPT !.writes = MaxWrites])

\* the loop of StopAll runs while a goroutine is inside scanAndUpload
StopAllRunInPass ==
  /\ \E t \in Slots : tasks[t].live /\ tasks[t].pc \in {"scan", "upload", "save"}
  /\ StopAllRun

NextCancel ==
  \/ StartOnce
  \/ StopAllLoad
  \/ StopAllRunInPass
  \/ TaskStart
  \/ TaskTick
  \/ TaskScanFile
  \/ TaskUpload
  \/ TaskSave
  \/ TaskEndPass

SpecCancel == InitCancel /\ [][NextCancel]_vars

\* -------------------------------------- the passes and the ignore-rule source
\* The watch /a has been added with the ignore-rule source /ign, which has any
\* of its contents and is edited while the watch runs; the local tree does
\* not change (the changes from outside are those of /ign).  Every goroutine
\* is followed through its immediate pass.  StartWatch and StopWatch are
\* called at any time.
RulesArgs == {<<"/a", "", "/ign", FALSE>>}

InitRules ==
  /\ \E args \in RulesArgs :
       LET m == Normalize(AddWatchWithIgnoreAndRandom(InitM, args[1], args[2],
                                                      args[3], args[4]))
       IN /\ cfg = m.cfg /\ heap = m.heap /\ disk = m.disk /\ tasks = m.tasks
          /\ closed = m.closed /\ fs = m.fs /\ writes = m.writes
          /\ nextUuid = m.nextUuid /\ pending = m.pending
          /\ uploaded = m.uploaded /\ temps = m.temps
  /\ probe = NoProbe /\ bundle = NoBundle
  /\ ign \in IgnoreFiles

NextRules ==
  \/ StartWatchOf({"/a"})
  \/ DoStopWatch
  \/ TaskStart
  \/ TaskScanFile
  \/ TaskUpload
  \/ TaskSave
  \/ TaskEndPass
  \/ EditRules

SpecRules == InitRules /\ [][NextRules]_vars

\* ------------------------------------------------- the matcher run alone
\* loadPatternsForWatch and shouldIgnore on every rule source of at most
\* MaxRules lines of RuleLines and every candidate path, as a file and as a
\* directory.
RuleSources == UNION {[1..n -> RuleLines] : n \in 0..MaxRules}

InitIgnore ==
  /\ cfg = InitM.cfg /\ heap = InitM.heap /\ disk = InitM.disk
  /\ tasks = InitM.tasks /\ closed = InitM.closed /\ fs = InitM.fs
  /\ writes = InitM.writes /\ nextUuid = InitM.nextUuid
  /\ pending = InitM.pending /\ uploaded = InitM.uploaded /\ temps = InitM.temps
  /\ bundle = NoBundle /\ ign = IgnoreFileOf(IgnoreLines)
  /\ \E lines \in RuleSources, rel \in Candidates, isDir \in BOOLEAN :
       probe = [lines |-> lines, patterns |-> NilSlice, rel |-> rel,
                isDir |-> isDir, pc |-> "load", out |-> FALSE]

\* patterns, _ := loadPatternsForWatch(w): the scanner loop over the lines
ProbeLoad ==
  /\ probe.pc = "load"
  /\ probe' = [probe EXCEPT !.patterns = LET ps == compileLines(probe.lines)
                                          IN IF ps = <<>> THEN NilSlice ELSE Slice(ps),
                            !.pc = "match"]
  /\ UNCHANGED <<cfg, heap, disk, tasks, closed, fs, writes, nextUuid, pending,
                 uploaded, temps, bundle, ign>>

\* the rest of shouldIgnore
ProbeMatch ==
  /\ probe.pc = "match"
  /\ probe' = [probe EXCEPT !.out = shouldIgnore(probe.patterns.list, probe.rel,
                                                 probe.isDir),
                            !.pc = "done"]
  /\ UNCHANGED <<cfg, heap, disk, tasks, closed, fs, writes, nextUuid, pending,
                 uploaded, temps, bundle, ign>>

NextIgnore ==
  \/ ProbeLoad
  \/ ProbeMatch

SpecIgnore == InitIgnore /\ [][NextIgnore]_vars

\* ------------------------------------------- one rule and one path, alone
\* patternToRegexp and MatchString on every rule body of at most MaxBody
\* characters and every relative path of at most MaxPath characters.
GlobChars == {"a", "/", "*", "?", "U+00E9"}
PathChars == {"a", "/", "U+00E9"}

RuleBodies == UNION {[1..n -> GlobChars] : n \in 1..MaxBody}

\* the relative paths: segments that are not empty, joined by "/"
GlobPaths ==
  {q \in UNION {[1..n -> PathChars] : n \in 1..MaxPath} :
     /\ q[1] # "/" /\ q[Len(q)] # "/"
     /\ \A i \in 1..(Len(q) - 1) : ~(q[i] = "/" /\ q[i + 1] = "/")}

InitGlob ==
  /\ cfg = InitM.cfg /\ heap = InitM.heap /\ disk = InitM.disk
  /\ tasks = InitM.tasks /\ closed = InitM.closed /\ fs = InitM.fs
  /\ writes = InitM.writes /\ nextUuid = InitM.nextUuid
  /\ pending = InitM.pending /\ uploaded = InitM.uploaded /\ temps = InitM.temps
  /\ bundle = NoBundle /\ ign = IgnoreFileOf(IgnoreLines)
  /\ \E body \in RuleBodies, anchored \in BOOLEAN, q \in GlobPaths :
       probe = [body |-> body, anchored |-> anchored, path |-> q,
                re |-> patternToRegexp(<<>>, FALSE), pc |-> "compile", out |-> FALSE]

\* reStr := patternToRegexp(line, anchored); re, err := regexp.Compile(reStr)
GlobCompile ==
  /\ probe.pc = "compile"
  /\ probe' = [probe EXCEPT !.re = patternToRegexp(Encode(probe.body), probe.anchored),
                            !.pc = "match"]
  /\ UNCHANGED <<cfg, heap, disk, tasks, closed, fs, writes, nextUuid, pending,
                 uploaded, temps, bundle, ign>>

\* p.re.MatchString(rel)
GlobMatch ==
  /\ probe.pc = "match"
  /\ probe' = [probe EXCEPT !.out = MatchString(probe.re, Encode(probe.path)),
                            !.pc = "done"]
  /\ UNCHANGED <<cfg, heap, disk, tasks, closed, fs, writes, nextUuid, pending,
                 uploaded, temps, bundle, ign>>

NextGlob ==
  \/ GlobCompile
  \/ GlobMatch

SpecGlob == InitGlob /\ [][NextGlob]_vars

\* ------------------------------------------------ the watch in bundle mode
\* The bundle pass: the watch root is packed into one archive, the archive is
\* encrypted when the watch has a key, given the watch's anonymized name when
\* anonymization is on as well, uploaded to the remote root, and every
\* temporary file is removed.
ArchiveName == <<"archive">>
EncryptedArchiveName == <<"encrypted", "archive">>

\* (mutant of BundleMint: a name is made in every pass)
BundleMint_perPass(name, next) == next

\* the anonymized name of the watch: made once, then reused
BundleMint(name, next) == IF name = 0 THEN next ELSE name

\* the name RunUpload is given in bundle mode
BundleUploadName(b) ==
  IF b.key = "" THEN ArchiveName
  ELSE IF b.anon THEN UuidName(b.name)
  ELSE EncryptedArchiveName

BundleTemp(name) == Temp("/a", ".", name)

InitBundle ==
  /\ cfg = InitM.cfg /\ heap = InitM.heap /\ disk = InitM.disk
  /\ tasks = InitM.tasks /\ closed = InitM.closed /\ fs = InitM.fs
  /\ writes = InitM.writes /\ nextUuid = InitM.nextUuid
  /\ pending = InitM.pending /\ uploaded = InitM.uploaded /\ temps = InitM.temps
  /\ probe = NoProbe /\ ign = IgnoreFileOf(IgnoreLines)
  /\ \E key \in {"", "k"}, anon \in BOOLEAN :
       bundle = [NoBundle EXCEPT !.key = key, !.anon = anon, !.pc = "idle"]

\* a pass starts: the archive is written (or writing it fails)
BundleArchive ==
  /\ bundle.pc = "idle" /\ bundle.pass < MaxPasses
  /\ \E ok \in BOOLEAN :
       /\ bundle' = [bundle EXCEPT !.pass = @ + 1,
                                   !.pc = IF ok THEN "transform" ELSE "idle"]
       /\ temps' = IF ok THEN temps \cup {BundleTemp(ArchiveName)} ELSE temps
  /\ UNCHANGED <<cfg, heap, disk, tasks, closed, fs, writes, nextUuid, pending,
                 uploaded, probe, ign>>

\* the archive is encrypted when the watch has a key; a failure ends the pass
BundleEncrypt ==
  /\ bundle.pc = "transform"
  /\ \E ok \in BOOLEAN :
       IF bundle.key = ""
         THEN /\ ok
              /\ bundle' = [bundle EXCEPT !.pc = "upload"]
              /\ temps' = temps
         ELSE IF ok
           THEN /\ bundle' = [bundle EXCEPT !.pc = IF bundle.anon THEN "name"
                                                                  ELSE "upload"]
                /\ temps' = temps \cup {BundleTemp(EncryptedArchiveName)}
           ELSE /\ bundle' = [bundle EXCEPT !.pc = "idle"]
                /\ temps' = {}
  /\ UNCHANGED <<cfg, heap, disk, tasks, closed, fs, writes, nextUuid, pending,
                 uploaded, probe, ign>>

\* the anonymized name is determined and persisted, the encrypted archive is
\* renamed to it; a failure of the rename ends the pass
BundleName ==
  /\ bundle.pc = "name"
  /\ \E ok \in BOOLEAN :
       LET name == BundleMint(bundle.name, nextUuid + 1)
       IN /\ bundle' = [bundle EXCEPT !.name = name, !.saved = name,
                                      !.pc = IF ok THEN "upload" ELSE "idle"]
          /\ nextUuid' = IF name = bundle.name THEN nextUuid ELSE nextUuid + 1
          /\ temps' = IF ok
                        THEN Rename(temps, "/a", ".", EncryptedArchiveName,
                                    UuidName(name), TRUE)
                        ELSE {}
  /\ UNCHANGED <<cfg, heap, disk, tasks, closed, fs, writes, pending, uploaded,
                 probe, ign>>

\* the artifact is uploaded to the remote root; the temporary files are removed
BundleUpload ==
  /\ bundle.pc = "upload"
  /\ bundle' = [bundle EXCEPT !.log = Append(@, BundleUploadName(bundle)),
                              !.pc = "idle"]
  /\ temps' = {}
  /\ UNCHANGED <<cfg, heap, disk, tasks, closed, fs, writes, nextUuid, pending,
                 uploaded, probe, ign>>

NextBundle ==
  \/ BundleArchive
  \/ BundleEncrypt
  \/ BundleName
  \/ BundleUpload

SpecBundle == InitBundle /\ [][NextBundle]_vars

\* ================================================================ claims
\* the entry a goroutine works on
TaskEntry(t) == heap[tasks[t].w]

\* the goroutines of a watch whose channel has not been closed
Uncancelled(m, local) ==
  {t \in LiveTasks(m) : m.heap[m.tasks[t].w].Local = Clean(local) /\ t \notin m.closed}

\* the watch is in sync_config.json
Present(m, local) == m.disk.exists /\ watchID(Clean(local)) \in DOMAIN m.disk.watches

\* C1: StartWatch on a watch that was started and not stopped since returns
\* "watch already running" and launches nothing: a watch never has more than
\* one goroutine that was not told to stop.
C1_StartOfRunningIsRejected ==
  \A local \in LocalArgs :
    /\ Cardinality(Uncancelled(M, local)) <= 1
    /\ (Uncancelled(M, local) # {} /\ Present(M, local) /\ FreeSlots(M) # {})
         => LET r == StartWatch(M, local)
            IN r.ret.err = "watch already running" /\ LiveTasks(r) = LiveTasks(M)

\* C2: after a successful StartWatch, StopWatch of the same watch returns no
\* error, leaves the watch stopped and closes the channel its goroutine
\* listens on.
C2_StopAfterStartSucceeds ==
  \A local \in LocalArgs :
    (Uncancelled(M, local) # {} /\ Present(M, local))
      => LET r == StopWatch(M, local)
         IN /\ r.ret.err = "ok"
            /\ ~r.heap[r.cfg.Watches[watchID(Clean(local))]].Running
            /\ Uncancelled(r, local) = {}

\* the loop body of goroutine t handles rel in this step
Handles(t, rel) ==
  /\ tasks[t].live /\ tasks[t].pc = "scan" /\ rel \in tasks[t].todo
  /\ tasks'[t].live /\ tasks'[t].todo = tasks[t].todo \ {rel}

\* the step uploads nothing and writes neither FileState nor NameMapping
LeavesUntouched(t) ==
  /\ tasks'[t].pc = "scan"
  /\ TaskEntry(t)'.Files = TaskEntry(t).Files
  /\ TaskEntry(t)'.FileNameMap = TaskEntry(t).FileNameMap
  /\ disk' = disk
  /\ uploaded' = uploaded
  /\ nextUuid' = nextUuid

\* C3: a file whose current fingerprint equals the recorded one is skipped:
\* no upload, no FileState write, no NameMapping change, nothing persisted.
C3_UnchangedFileIsSkipped ==
  [][\A t \in Slots, rel \in RelPaths :
       (/\ Handles(t, rel)
        /\ fs[TaskEntry(t).Local][rel] # 0
        /\ rel \in DOMAIN TaskEntry(t).Files
        /\ TaskEntry(t).Files[rel].MD5 = fs[TaskEntry(t).Local][rel])
         => LeavesUntouched(t)]_vars

\* a later pass has handled every walked file and uploaded none, while a
\* recorded, unchanged, anonymized file is in the tree
C3_Witness ==
  \E t \in Slots, rel \in RelPaths :
    /\ tasks[t].live /\ tasks[t].pc = "scan"
    /\ tasks[t].todo = {} /\ tasks[t].done = {}
    /\ rel \in DOMAIN TaskEntry(t).Files
    /\ fs[TaskEntry(t).Local][rel] # 0
    /\ TaskEntry(t).Files[rel].MD5 = fs[TaskEntry(t).Local][rel]
    /\ \E n \in DOMAIN TaskEntry(t).FileNameMap : TaskEntry(t).FileNameMap[n] = rel
    /\ Present(M, TaskEntry(t).Local)
    /\ disk.watches[watchID(TaskEntry(t).Local)].FileNameMap = TaskEntry(t).FileNameMap

\* C4: a file the watch's rules ignore is skipped whatever its fingerprint:
\* no upload, no FileState entry made or changed.
C4_IgnoredFileIsSkipped ==
  [][\A t \in Slots, rel \in RelPaths :
       (/\ Handles(t, rel)
        /\ fs[TaskEntry(t).Local][rel] # 0
        /\ shouldIgnore(loadPatternsForWatch(TaskEntry(t)).list, rel, FALSE))
         => LeavesUntouched(t)]_vars

\* a pass has uploaded one file and passed over an ignored one, which has no
\* FileState entry
C4_Witness ==
  \E t \in Slots, rel \in RelPaths :
    /\ tasks[t].live /\ tasks[t].pc = "scan"
    /\ tasks[t].done # {} /\ rel \notin tasks[t].todo
    /\ fs[TaskEntry(t).Local][rel] # 0
    /\ ~TaskEntry(t).patterns.isNil
    /\ shouldIgnore(TaskEntry(t).patterns.list, rel, FALSE)
    /\ rel \notin DOMAIN TaskEntry(t).Files

\* every FileState entry, in memory and persisted
FileStates(m) ==
  UNION {{<<m.heap[a].Local, rel, m.heap[a].Files[rel].MD5>> :
            rel \in RelPaths \cap DOMAIN m.heap[a].Files} : a \in DOMAIN m.heap}
  \cup
  UNION {{<<m.disk.watches[id].Local, rel, m.disk.watches[id].Files[rel].MD5>> :
            rel \in RelPaths \cap DOMAIN m.disk.watches[id].Files} :
           id \in DOMAIN m.disk.watches}

\* C5: a FileState entry exists for a path under a fingerprint only if an
\* upload of that file under that fingerprint succeeded.
C5_FileStateOnlyAfterSuccess == FileStates(M) \subseteq uploaded

Extends(g, f) == \A n \in DOMAIN f : n \in DOMAIN g /\ g[n] = f[n]

C7_CompletedUploadsArePersisted ==
  \A t \in Slots :
    tasks[t].live =>
      \A rel \in tasks[t].done :
        /\ Present(M, TaskEntry(t).Local)
        /\ rel \in DOMAIN disk.watches[watchID(TaskEntry(t).Local)].Files
        /\ disk.watches[watchID(TaskEntry(t).Local)].Files[rel] = TaskEntry(t).Files[rel]

\* C8: DeleteWatch of a running watch closes the channel of its goroutine.
C8_DeleteCancelsRunning ==
  \A local \in LocalArgs :
    (Uncancelled(M, local) # {} /\ Present(M, local))
      => LET r == DeleteWatch(M, local)
         IN r.ret.err = "ok" /\ Uncancelled(r, local) = {}

\* C9: the interrupt of StartSync("") (a StopAll call) closes the channel of
\* every goroutine running at that moment.
C9_StopAllCancelsAll ==
  LET r == StartSyncInterrupt(M, "")
  IN r.ret.err = "ok" /\ LiveTasks(M) \subseteq r.closed

\* the persisted fields of the in-memory registry
PersistedRegistry(m) ==
  [id \in DOMAIN m.cfg.Watches |-> Marshal(m.heap[m.cfg.Watches[id]])]

\* the calls that fail with a configuration error in state m, applied to m
FailingCalls(m) ==
  {AddWatchWithIgnoreAndRandom(m, a[1], a[2], a[3], a[4]) :
     a \in {b \in AddArgs : Present(m, b[1])}}
  \cup {DeleteWatch(m, l) : l \in {x \in LocalArgs : ~Present(m, x)}}
  \cup {StartWatch(m, l) : l \in {x \in LocalArgs : ~Present(m, x)}}
  \cup {StopWatch(m, l) :
          l \in {x \in LocalArgs : ~Present(m, x) \/ Uncancelled(m, x) = {}}}

\* C10: a call that fails with a configuration error returns the error and
\* leaves the registry, the persisted state and the goroutines unchanged.
C10_FailedCallChangesNothing ==
  \A r \in FailingCalls(M) :
    /\ r.ret.err \in {"watch already exists", "watch not found", "watch not running"}
    /\ PersistedRegistry(r) = PersistedRegistry(M)
    /\ r.disk = disk
    /\ r.tasks = tasks
    /\ r.closed = closed

\* the rules of the probe that apply to its candidate and match it
ProbeHits ==
  {i \in 1..Len(probe.patterns.list) :
     /\ ~(probe.patterns.list[i].dirOnly /\ ~probe.isDir)
     /\ MatchString(probe.patterns.list[i].re, Chars(probe.rel))}

\* the rule source  "*.log", "!important.log"
LogRules ==
  << <<"*", ".", "l", "o", "g">>,
     <<"!", "i", "m", "p", "o", "r", "t", "a", "n", "t", ".", "l", "o", "g">> >>

\* C11: the last rule, in file order, that matches the candidate decides: the
\* path is ignored iff there is a matching rule and the last one is not a
\* negation; under "*.log", "!important.log" the file important.log is not
\* ignored and debug.log is.
C11_LastMatchWins ==
  probe.pc = "done" =>
    /\ probe.out = (ProbeHits # {} /\ ~probe.patterns.list[MaxOf(ProbeHits)].neg)
    /\ (probe.lines = LogRules /\ probe.rel = "important.log") => ~probe.out
    /\ (probe.lines = LogRules /\ probe.rel = "debug.log") => probe.out

\* important.log was matched against "*.log", "!important.log": both rules
\* match, the negation comes last, the file is not ignored
C11_Witness ==
  /\ probe.pc = "done"
  /\ probe.lines = LogRules /\ probe.rel = "important.log" /\ ~probe.isDir
  /\ ProbeHits = {1, 2}
  /\ ~probe.out

\* the RunUpload calls a first pass over a.txt and sub/b.txt makes when the
\* watch has no key
PlainUploads ==
  {[rel |-> "a.txt", name |-> <<"file", "a.txt">>, dir |-> "/r"],
   [rel |-> "sub/b.txt", name |-> <<"file", "b.txt">>, dir |-> "/r/sub"]}

\* C12: RunUpload is given the remote root for a file directly in the watch
\* root and the remote root joined by "/" with the relative directory
\* otherwise, at most once per file and pass; without key and ignore rules the
\* calls made in a pass are those of the files the pass recorded in FileState.
C12_RemoteDirOfUpload ==
  \A t \in Slots :
    tasks[t].live =>
      /\ \A u \in tasks[t].ups :
           /\ u.rel = "a.txt" => u.dir = TaskEntry(t).Remote
           /\ u.rel = "sub/b.txt" => u.dir = TaskEntry(t).Remote \o "/sub"
           /\ u.rel \in DOMAIN TaskEntry(t).Files
      /\ \A u1, u2 \in tasks[t].ups : u1.rel = u2.rel => u1 = u2
      /\ (TaskEntry(t).Key = "" /\ TaskEntry(t).IgnoreFile = ""
            /\ tasks[t].pc = "scan")
           => /\ {u.rel : u \in tasks[t].ups} = tasks[t].done
              /\ \A u \in tasks[t].ups : u.name = <<"file", Base(u.rel)>>

\* the first pass of a watch without key and ignore rules has handled a.txt
\* and sub/b.txt: two RunUpload calls, to /r and to /r/sub, both files in
\* FileState with their fingerprint, in memory and persisted
C12_Witness ==
  \E t \in Slots :
    /\ tasks[t].live /\ tasks[t].pc = "scan" /\ tasks[t].todo = {}
    /\ TaskEntry(t).Key = "" /\ TaskEntry(t).IgnoreFile = ""
    /\ writes = 0
    /\ tasks[t].ups = PlainUploads
    /\ DOMAIN TaskEntry(t).Files = {"a.txt", "sub/b.txt"}
    /\ \A rel \in {"a.txt", "sub/b.txt"} :
         /\ TaskEntry(t).Files[rel] = FileStateOf(fs["/a"][rel])
         /\ disk.watches[watchID("/a")].Files[rel] = FileStateOf(fs["/a"][rel])

\* C13: no step removes a key from a FileState map, in the entry a goroutine
\* works on or in the persisted registry; the entry of a file that is no
\* longer in the local tree stays as it is (unless the file went away after
\* the walk of a pass had already handed it to RunUpload, whose return then
\* writes the entry), and nothing uploaded is taken back (RunUpload is the
\* only remote operation of a pass).
C13_FileStateIsNeverRemoved ==
  [][/\ \A t \in Slots :
          (tasks[t].live /\ tasks'[t].live)
            => \A rel \in DOMAIN TaskEntry(t).Files :
                 /\ rel \in DOMAIN TaskEntry(t)'.Files
                 /\ (/\ fs[TaskEntry(t).Local][rel] = 0
                     /\ ~\E u \in Slots : /\ tasks[u].live
                                          /\ tasks[u].w = tasks[t].w
                                          /\ tasks[u].pc = "upload"
                                          /\ tasks[u].cur = rel)
                      => TaskEntry(t)'.Files[rel] = TaskEntry(t).Files[rel]
     /\ \A id \in DOMAIN disk.watches \cap DOMAIN disk'.watches :
          DOMAIN disk.watches[id].Files \subseteq DOMAIN disk'.watches[id].Files
     /\ uploaded \subseteq uploaded']_vars

\* a file uploaded in an earlier pass is gone from the local tree; a later
\* pass has ended without an upload and its FileState entry is still there,
\* in memory and persisted
C13_Witness ==
  \E t \in Slots, rel \in RelPaths :
    /\ tasks[t].live /\ tasks[t].pc = "scan"
    /\ tasks[t].todo = {} /\ tasks[t].done = {} /\ tasks[t].ups = {}
    /\ fs[TaskEntry(t).Local][rel] = 0
    /\ rel \in DOMAIN TaskEntry(t).Files
    /\ <<TaskEntry(t).Local, rel, TaskEntry(t).Files[rel].MD5>> \in uploaded
    /\ rel \in DOMAIN disk.watches[watchID(TaskEntry(t).Local)].Files

\* C14: for a watch without key the RandomFilename flag changes nothing: a
\* pass makes no name (no uuid, no NameMapping entry), writes and renames no
\* temporary file, and gives RunUpload the local file under its own name.
C14_NoKeyNoAnonymization ==
  \A t \in Slots :
    (tasks[t].live /\ TaskEntry(t).Key = "")
      => /\ TaskEntry(t).FileNameMap = EmptyMap
         /\ nextUuid = 0
         /\ tasks[t].uuid = 0
         /\ temps = {}
         /\ \A u \in tasks[t].ups : u.name = <<"file", Base(u.rel)>>
         /\ Present(M, TaskEntry(t).Local)
              => disk.watches[watchID(TaskEntry(t).Local)].FileNameMap = EmptyMap

\* a watch with the flag set and no key has uploaded both files of its tree
\* in one pass, under their own names, and its NameMapping is empty
C14_Witness ==
  \E t \in Slots :
    /\ tasks[t].live /\ tasks[t].pc = "scan" /\ tasks[t].todo = {}
    /\ TaskEntry(t).Key = "" /\ TaskEntry(t).RandomFilename
    /\ tasks[t].ups = PlainUploads
    /\ {<<"/a", "a.txt", 1>>, <<"/a", "sub/b.txt", 1>>} \subseteq uploaded
    /\ TaskEntry(t).FileNameMap = EmptyMap
    /\ disk.watches[watchID("/a")].FileNameMap = EmptyMap

\* C15: when the handling of a file has ended, however it ended, no temporary
\* file made for it is left: a temporary file exists only while a goroutine is
\* about to upload it; and no goroutine step changes the local tree.
C15_NoTemporaryFileRemains ==
  [][/\ \A x \in temps' :
          \E t \in Slots :
            /\ tasks'[t].live /\ tasks'[t].pc = "upload"
            /\ tasks'[t].cur = x.rel /\ TaskEntry(t)'.Local = x.local
     /\ writes' = writes => fs' = fs]_vars

\* every Registry API call, applied to a state m in which load fails
ApiCalls(m) ==
  {AddWatchWithIgnoreAndRandom(m, a[1], a[2], a[3], a[4]) : a \in AddArgs}
  \cup {DeleteWatch(m, l) : l \in LocalArgs}
  \cup {StartWatch(m, l) : l \in LocalArgs}
  \cup {StopWatch(m, l) : l \in LocalArgs}
  \cup {ListWatches(m), StartAll(m), StopAll(m)}

\* C16: load gives the empty registry when there is no sync_config.json;
\* when the file does not parse, load fails, s.cfg is not replaced, and every
\* Registry API call returns that error having changed no entry, started or
\* stopped no goroutine and written nothing.
C16_LoadFailureChangesNothing ==
  /\ ~disk.exists => load(M).cfg = [isNil |-> FALSE, Watches |-> EmptyMap]
  /\ (disk.exists /\ disk.bad) =>
       /\ load(M).cfg = cfg
       /\ \A r \in ApiCalls(M) :
            /\ r.ret.err = LoadError
            /\ r.cfg = cfg /\ r.heap = heap /\ r.disk = disk
            /\ r.tasks = tasks /\ r.closed = closed /\ r.pending = pending

\* sync_config.json does not parse while the registry in memory holds a
\* running watch whose goroutine is alive: StartWatch and StopAll fail
C16_Witness ==
  /\ disk.exists /\ disk.bad
  /\ \E id \in DOMAIN cfg.Watches, t \in Slots :
       /\ heap[cfg.Watches[id]].Running
       /\ tasks[t].live /\ tasks[t].w = cfg.Watches[id]
  /\ StartWatch(M, "/a").ret.err = LoadError
  /\ StopAll(M).ret.err = LoadError

\* the watch roots of the registry file
DiskLocals(m) == {m.disk.watches[id].Local : id \in DOMAIN m.disk.watches}

\* C17: StartAll leaves every watch with exactly one goroutine that was not
\* told to stop (one is launched for a stopped watch, none for a running
\* one); StopAll leaves none.
C17_StartAllStopAllSkip ==
  /\ Cardinality(FreeSlots(M)) >= Cardinality(ToLaunch(load(M)))
       => LET r == StartAll(M)
          IN /\ r.ret.err = "ok"
             /\ \A local \in DiskLocals(M) : Cardinality(Uncancelled(r, local)) = 1
  /\ LET r == StopAll(M)
     IN /\ r.ret.err = "ok"
        /\ \A local \in DiskLocals(M) : Uncancelled(r, local) = {}

\* C18: a watch in bundle mode with key and anonymization uploads its
\* archive under one and the same anonymized name in every pass, and that
\* name is persisted from the moment it is made.
C18_BundleNameIsFixed ==
  (bundle.key # "" /\ bundle.anon)
    => /\ \A i, j \in DOMAIN bundle.log : bundle.log[i] = bundle.log[j]
       /\ \A i \in DOMAIN bundle.log : bundle.log[i] = <<"uuid", bundle.saved>>
       /\ bundle.saved = bundle.name

\* two bundle passes of an anonymized watch have uploaded, under the same name
C18_Witness ==
  /\ bundle.key # "" /\ bundle.anon
  /\ bundle.pc = "idle" /\ bundle.pass = 2 /\ Len(bundle.log) = 2
  /\ bundle.log[1] = bundle.log[2]
  /\ bundle.log[1] = <<"uuid", bundle.saved>> /\ bundle.saved # 0

\* C19: once the channel of a goroutine is closed, the goroutine takes up no
\* further file of the pass it is in: at the head of the loop it leaves the
\* files still to do alone.
C19_CancelBetweenFiles ==
  [][\A t \in Slots :
       (tasks[t].live /\ tasks[t].pc = "scan" /\ t \in closed /\ tasks'[t].live)
         => tasks'[t].todo = tasks[t].todo]_vars

\* goroutine t is inside scanAndUpload
InPass(t) == tasks[t].live /\ tasks[t].pc \in {"scan", "upload", "save"}

\* C20: the passes of one watch never overlap: no two goroutines are inside
\* scanAndUpload for the same local root at the same time.
C20_PassesAreSequential ==
  \A t1, t2 \in Slots :
    (InPass(t1) /\ InPass(t2) /\ TaskEntry(t1).Local = TaskEntry(t2).Local)
      => t1 = t2

\* a StartAll or StopAll call has done its load and not yet its loop and save
CallInFlight == pending.start + pending.stop > 0

\* C21: the load, the mutation and the save of a mutating Registry API call
\* are one critical section: while a StartAll or StopAll call is between its
\* load and its save, no step of another call writes sync_config.json,
\* launches a goroutine or closes a channel.
C21_MutatingCallsAreAtomic ==
  [][(CallInFlight /\ pending' = pending)
       => /\ disk' = disk
          /\ {t \in Slots : tasks'[t].live} \subseteq {t \in Slots : tasks[t].live}
          /\ closed' \subseteq closed]_vars

\* the mutexes a goroutine holds where scanAndUpload writes w.FileNameMap and
\* w.Files, and the ones held where save marshals s.cfg
MapWriteLocks == {}
SaveLocks == {"s.mu"}

\* goroutine t is in the loop body after RunUpload: w.Files[rel] is written next
WritesMap(t) == tasks[t].live /\ tasks[t].pc = "upload"

\* goroutine t is in its s.save(): json.MarshalIndent reads s.cfg
SavesByTask(t) == tasks[t].live /\ tasks[t].pc = "save"

\* a StartAll or StopAll call is on its way to its s.save()
SavesByCall == pending.start + pending.stop > 0

\* the entry at address a is in s.cfg.Watches, so save reads its maps
InRegistry(a) == \E id \in DOMAIN cfg.Watches : cfg.Watches[id] = a

\* C22: a goroutine never writes the FileState or NameMapping of an entry of
\* the registry while a save of another goroutine or of an API call can be
\* reading the registry, unless the write and the save hold a common mutex.
C22_RegistryAccessUnderMutex ==
  \A t \in Slots :
    (/\ WritesMap(t) /\ InRegistry(tasks[t].w)
     /\ (SavesByCall \/ \E u \in Slots \ {t} : SavesByTask(u)))
      => MapWriteLocks \cap SaveLocks # {}

\* C23: while RunUpload runs for a file that was given a new anonymized name,
\* sync_config.json already holds the NameMapping entry of that name.
C23_NamePersistedBeforeUpload ==
  \A t \in Slots :
    (tasks[t].live /\ tasks[t].pc = "upload" /\ tasks[t].uuid # 0)
      => /\ Present(M, TaskEntry(t).Local)
         /\ LET names == disk.watches[watchID(TaskEntry(t).Local)].FileNameMap
            IN /\ tasks[t].uuid \in DOMAIN names
               /\ names[tasks[t].uuid] = tasks[t].cur

\* the loop body of goroutine t handles rel in this step, the file is there,
\* changed or new, and not ignored, and yet the step does not reach RunUpload:
\* md5sum, encryptFileForSync or os.Rename failed
FailsOn(t, rel) ==
  /\ Handles(t, rel)
  /\ fs[TaskEntry(t).Local][rel] # 0
  /\ ~Unchanged(TaskEntry(t), rel, fs[TaskEntry(t).Local][rel])
  /\ ~shouldIgnore(loadPatternsForWatch(TaskEntry(t)).list, rel, FALSE)
  /\ tasks'[t].pc = "scan"

\* C24: a failure of the hash, of the encryption or of the rename for one
\* file makes no RunUpload call for it, leaves FileState and NameMapping of
\* the watch as they were, and the pass goes on with the files still to do
\* (the file, its state unchanged, is taken up again by the next pass).
C24_FailureLeavesStateUntouched ==
  [][\A t \in Slots, rel \in RelPaths :
       FailsOn(t, rel)
         => /\ TaskEntry(t)'.Files = TaskEntry(t).Files
            /\ TaskEntry(t)'.FileNameMap = TaskEntry(t).FileNameMap
            /\ tasks'[t].ups = tasks[t].ups
            /\ uploaded' = uploaded
            /\ tasks'[t].todo = tasks[t].todo \ {rel}]_vars

\* C25: the rule set of a watch is fixed by its first load: a goroutine that
\* has evaluated the rules gets the same rule list at every later evaluation,
\* whatever happened to the ignore-rule source, and so does every goroutine
\* started for the watch later (two goroutines of one watch never work with
\* different rule lists).
C25_RuleSetIsFixed ==
  [][/\ \A t \in Slots :
          (tasks[t].live /\ tasks[t].seen /\ tasks'[t].live)
            => tasks'[t].rules = tasks[t].rules
     /\ \A t1, t2 \in Slots :
          (/\ tasks[t1].live /\ tasks[t1].seen
           /\ tasks[t2].live /\ tasks[t2].seen
           /\ TaskEntry(t1).Local = TaskEntry(t2).Local)
            => tasks[t1].rules = tasks[t2].rules]_vars

\* the reference semantics of a rule body on a path, character by character:
\* "**" any sequence, "*" any sequence without "/", "?" one character, any
\* other character itself; the whole path for an anchored rule, the whole
\* path or a suffix that starts after a "/" for an unanchored one
RefMatch(body, anchored, q) ==
  LET RECURSIVE m(_, _)
      m(i, j) ==
        IF i > Len(body) THEN j > Len(q)
        ELSE IF i + 1 <= Len(body) /\ body[i] = "*" /\ body[i + 1] = "*"
          THEN \E n \in j..(Len(q) + 1) : m(i + 2, n)
        ELSE IF body[i] = "*"
          THEN \E n \in j..(Len(q) + 1) :
                 (\A x \in j..(n - 1) : q[x] # "/") /\ m(i + 1, n)
        ELSE IF body[i] = "?" THEN j <= Len(q) /\ m(i + 1, j + 1)
        ELSE j <= Len(q) /\ q[j] = body[i] /\ m(i + 1, j + 1)
  IN IF anchored THEN m(1, 1)
     ELSE m(1, 1) \/ \E n \in 1..Len(q) : q[n] = "/" /\ m(1, n + 1)

\* C26: the compiled rule matches a relative path exactly when the reference
\* semantics of its body say so.
C26_GlobSemantics ==
  probe.pc = "done" => probe.out = RefMatch(probe.body, probe.anchored, probe.path)

\* the rule list without its directory-only rules
FileRules(patterns) == SelectSeq(patterns, LAMBDA r : ~r.dirOnly)

\* the rule source  "sub/"
SubDirRule == << <<"s", "u", "b", "/">> >>

\* C27: for a candidate that is not a directory (the only kind a pass gives
\* to shouldIgnore) the directory-only rules count for nothing: the decision
\* is the one the other rules of the source give; the rule "sub/" alone
\* ignores neither a file named sub nor the file sub/debug.log, and it does
\* ignore the directory sub.
C27_DirOnlyRulesSkipFiles ==
  probe.pc = "done" =>
    /\ ~probe.isDir
          => probe.out = shouldIgnore(FileRules(probe.patterns.list), probe.rel, FALSE)
    /\ (probe.lines = SubDirRule /\ probe.rel \in {"sub", "sub/debug.log"})
          => probe.out = (probe.isDir /\ probe.rel = "sub")

\* the file named sub was matched against a source of two rules whose second
\* rule is directory-only and has an expression that matches the path (the
\* rule "sub/"): the file is not ignored
C27_Witness ==
  /\ probe.pc = "done" /\ ~probe.isDir /\ probe.rel = "sub"
  /\ Len(probe.patterns.list) = 2
  /\ probe.patterns.list[2].dirOnly
  /\ MatchString(probe.patterns.list[2].re, Chars(probe.rel))
  /\ ~probe.out

\* ------------------------------------------------- save, then load, alone
\* The watch /a has been added; its tree holds a.txt and a file whose name is
\* the one byte 0xC3 (a name in a legacy encoding).  The entry in memory has
\* any of the values the passes give it: FileState for any of the files, a
\* NameMapping entry when the watch anonymizes, a rule set loaded or not, a
\* goroutine running or not.  s.save() is called, then s.load().
RoundTripArgs ==
  {<<"/a", key, ignoreFile, randomFilename>> :
     key \in {"", "k"}, ignoreFile \in {"", "/ign"}, randomFilename \in BOOLEAN}

RoundTripNames == {"a.txt", "<C3>"}

\* the FileState maps of the entry
RoundTripFiles ==
  UNION {[S -> {FileStateOf(v) : v \in 1..MaxVer}] : S \in SUBSET RoundTripNames}

\* the NameMapping of the entry
RoundTripNameMaps(w) ==
  {EmptyMap} \cup
  (IF Anonymizes(w) THEN {[n \in {1} |-> rel] : rel \in RoundTripNames} ELSE {})

InitRoundTrip ==
  /\ ign = IgnoreFileOf(IgnoreLines)
  /\ \E args \in RoundTripArgs, files \in RoundTripFiles, loaded \in BOOLEAN,
        running \in BOOLEAN :
       LET m0 == Normalize(AddWatchWithIgnoreAndRandom(InitM, args[1], args[2],
                                                       args[3], args[4]))
           a == m0.cfg.Watches[watchID("/a")]
           w == m0.heap[a]
       IN \E names \in RoundTripNameMaps(w) :
            LET m == [m0 EXCEPT
                        !.heap[a].Files = files,
                        !.heap[a].FileNameMap = names,
                        !.heap[a].patterns =
                          IF loaded THEN loadPatternsForWatch(w) ELSE @,
                        !.heap[a].Running = running,
                        !.heap[a].stopCh = IF running THEN 1 ELSE @,
                        !.tasks[1] =
                          IF running
                            THEN [NoTask EXCEPT !.live = TRUE, !.w = a,
                                                !.pc = "select", !.sel = 1]
                            ELSE @,
                        !.nextUuid = IF names = EmptyMap THEN @ ELSE 1]
            IN /\ cfg = m.cfg /\ heap = m.heap /\ disk = m.disk /\ tasks = m.tasks
               /\ closed = m.closed
               /\ fs = [l \in Locals |->
                          IF l = "/a" THEN [rel \in RoundTripNames |-> 1] ELSE <<>>]
               /\ writes = m.writes /\ nextUuid = m.nextUuid
               /\ pending = m.pending /\ uploaded = m.uploaded /\ temps = m.temps
               /\ bundle = NoBundle
               /\ probe = [pc |-> "save", before |-> <<>>]

\* the entries of the registry in memory, by watch id
EntriesOf(m) == [id \in DOMAIN m.cfg.Watches |-> m.heap[m.cfg.Watches[id]]]

\* the program is left in state m0, the step taken is recorded in p
SetWithProbe(m0, p) ==
  \E m \in {Normalize(m0)} :
     /\ cfg' = m.cfg /\ heap' = m.heap /\ disk' = m.disk /\ tasks' = m.tasks
     /\ closed' = m.closed /\ fs' = m.fs /\ writes' = m.writes
     /\ nextUuid' = m.nextUuid /\ pending' = m.pending
     /\ uploaded' = m.uploaded /\ temps' = m.temps
     /\ probe' = p /\ bundle' = bundle /\ ign' = ign

\* s.save()
RoundTripSave ==
  /\ probe.pc = "save"
  /\ SetWithProbe(save(M), [pc |-> "load", before |-> EntriesOf(M)])

\* s.load()
RoundTripLoad ==
  /\ probe.pc = "load"
  /\ SetWithProbe(load(M), [probe EXCEPT !.pc = "done"])

NextRoundTrip ==
  \/ RoundTripSave
  \/ RoundTripLoad

SpecRoundTrip == InitRoundTrip /\ [][NextRoundTrip]_vars

\* C28: Save followed by Load is a round trip on the persisted part of the
\* registry and a reset of the runtime part: after s.save() and s.load() the
\* registry has the watches it had before the save; every watch's local path,
\* remote path, interval, key, method, ignore source, anonymization flag,
\* FileState map and NameMapping are those of before the save; and every
\* loaded entry has Running false, no stopCh and no cached rule set.
C28_SaveLoadRoundTrip ==
  probe.pc = "done" =>
    /\ DOMAIN cfg.Watches = DOMAIN probe.before
    /\ \A id \in DOMAIN cfg.Watches :
         LET w == heap[cfg.Watches[id]]
             b == probe.before[id]
         IN /\ \A f \in PersistedFields : w[f] = b[f]
            /\ ~w.Running /\ w.stopCh = 0 /\ w.patterns = NilSlice

====
